---------------------------- MODULE Spec2Model ----------------------------
(***************************************************************************)
(* Diet Plan Viewer (src/diet_app.py): the Time Parser, the Tabular        *)
(* Parser, the Line-Pattern Parser in its text and PDF copies, and the     *)
(* Schedule Resolver as main() calls it.                                   *)
(*                                                                         *)
(* A Python str is a sequence of one-character strings, so that strip,     *)
(* lower, replace, the regular expression and strptime are computed        *)
(* character by character.  A time-of-day is its number of minutes since   *)
(* midnight (meal times carry no seconds).                                 *)
(***************************************************************************)
EXTENDS Integers, Sequences, FiniteSets, TLC

VARIABLES
    pc,             \* position in the function being run
    time_str,       \* convert_time_to_datetime: the argument, with the parts it was built from
    time_obj,       \* convert_time_to_datetime: the value returned
    uploaded_file,  \* main: the uploaded file (extension and decoded content)
    page_i,         \* parse_pdf: position of the page loop
    line_i,         \* parse_text / parse_pdf: position of the line loop
    current_meal,   \* parse_text / parse_pdf: the record being accumulated
    meals,          \* parse_text / parse_pdf: the records finalized so far
    df,             \* the DataFrame: None, or the sequence of its rows
    shown,          \* main: the clock reading displayed as "Current Time"
    now,            \* get_current_or_next_meal: its own clock reading
    next_meal_idx   \* main: the index label get_current_or_next_meal returned

vars == <<pc, time_str, time_obj, uploaded_file, page_i, line_i, current_meal,
          meals, df, shown, now, next_meal_idx>>

-----------------------------------------------------------------------------
(* Bounds of the model. *)

MaxLines == 3
MaxPages == 2
MaxRows == 2
MaxRecords == 3
MaxDrift == 1

-----------------------------------------------------------------------------
(* Python values and str methods. *)

\* Python None where a str is expected (re.search finding nothing).
None == <<"None">>

\* Python None where a DataFrame is expected.
NoFrame == [none |-> TRUE]

\* The columns every parser gives its records (lines 42-48, 88-94, 153-159).
MealColumns == <<"time", "meal", "food", "quantity", "notes">>

\* pd.DataFrame(meals): one row per dict, in order; no columns for an empty list.
DataFrame(ms) ==
    [columns |-> IF ms = <<>> THEN <<>> ELSE MealColumns, rows |-> ms]

\* The truth value of a dict: {} is false, a dict with keys is true.
Truthy(d) == DOMAIN d # {}

\* float('nan'), the value pandas gives an empty spreadsheet cell.
NaN == <<"NaN">>

\* No time-of-day (None) and a raised ValueError, where a time-of-day is expected.
NoTime == -1
ValueError == -2

DigitChars == <<"0", "1", "2", "3", "4", "5", "6", "7", "8", "9">>
UpperChars == <<"A", "B", "C", "D", "E", "F", "G", "H", "I", "J", "K", "L", "M",
                "N", "O", "P", "Q", "R", "S", "T", "U", "V", "W", "X", "Y", "Z">>
LowerChars == <<"a", "b", "c", "d", "e", "f", "g", "h", "i", "j", "k", "l", "m",
                "n", "o", "p", "q", "r", "s", "t", "u", "v", "w", "x", "y", "z">>

Range(f) == {f[i] : i \in DOMAIN f}

IsDigit(c) == c \in Range(DigitChars)
IsSpace(c) == c \in {" ", "\t"}
IsAlpha(c) == c \in Range(UpperChars) \cup Range(LowerChars)
\* \w of the re module.
IsWordChar(c) == IsAlpha(c) \/ IsDigit(c) \/ c = "_"

DigitVal(c) == (CHOOSE i \in DOMAIN DigitChars : DigitChars[i] = c) - 1

LowerChar(c) ==
    IF c \in Range(UpperChars)
    THEN LowerChars[CHOOSE i \in DOMAIN UpperChars : UpperChars[i] = c]
    ELSE c

UpperChar(c) ==
    IF c \in Range(LowerChars)
    THEN UpperChars[CHOOSE i \in DOMAIN LowerChars : LowerChars[i] = c]
    ELSE c

\* The character of s at position i, "" past either end.
At(s, i) == IF i \in 1..Len(s) THEN s[i] ELSE ""

\* str.lower()
Lower(s) == [i \in 1..Len(s) |-> LowerChar(s[i])]

\* str.title(): the first letter of every run of letters in upper case, the rest in lower.
Title(s) ==
    [i \in 1..Len(s) |->
        IF i = 1 \/ ~IsAlpha(s[i - 1]) THEN UpperChar(s[i]) ELSE LowerChar(s[i])]

\* str.strip()
Strip(s) ==
    LET keep == {i \in 1..Len(s) : ~IsSpace(s[i])}
    IN  IF keep = {} THEN <<>>
        ELSE SubSeq(s, CHOOSE i \in keep : \A j \in keep : i <= j,
                       CHOOSE i \in keep : \A j \in keep : i >= j)

\* sub in s
Contains(s, sub) ==
    \E i \in 1..(Len(s) - Len(sub) + 1) : SubSeq(s, i, i + Len(sub) - 1) = sub

\* s.replace(old, ''): every occurrence of old removed, scanning from the left.
RECURSIVE Remove(_, _)
Remove(s, old) ==
    IF Len(s) < Len(old) \/ old = <<>> THEN s
    ELSE IF SubSeq(s, 1, Len(old)) = old
         THEN Remove(SubSeq(s, Len(old) + 1, Len(s)), old)
         ELSE <<s[1]>> \o Remove(Tail(s), old)

\* str(v): a str is itself, the float nan prints as 'nan'.
Str(v) == IF v = NaN THEN <<"n", "a", "n">> ELSE v

RECURSIVE Flat(_)
Flat(ss) == IF ss = <<>> THEN <<>> ELSE Head(ss) \o Flat(Tail(ss))

SeqsUpTo(S, n) == UNION {[1..k -> S] : k \in 0..n}

-----------------------------------------------------------------------------
(* Time Parser: datetime.strptime under the three formats of line 201.     *)
(* strptime compiles a format into a regular expression, matches it at the *)
(* start of the string and raises ValueError when it does not match or     *)
(* when unconverted data remains.  A directive yields its candidate        *)
(* matches [end, val] in the order the regular expression tries them; end  *)
(* is the position after the match.                                        *)

\* %I : 1[0-2] | 0[1-9] | [1-9]
Dir_I(s, i) ==
    (IF At(s, i) = "1" /\ At(s, i + 1) \in {"0", "1", "2"}
     THEN <<[end |-> i + 2, val |-> 10 + DigitVal(s[i + 1])]>> ELSE <<>>)
    \o (IF At(s, i) = "0" /\ IsDigit(At(s, i + 1)) /\ At(s, i + 1) # "0"
        THEN <<[end |-> i + 2, val |-> DigitVal(s[i + 1])]>> ELSE <<>>)
    \o (IF IsDigit(At(s, i)) /\ At(s, i) # "0"
        THEN <<[end |-> i + 1, val |-> DigitVal(s[i])]>> ELSE <<>>)

\* %H : 2[0-3] | [0-1]\d | \d
Dir_H(s, i) ==
    (IF At(s, i) = "2" /\ At(s, i + 1) \in {"0", "1", "2", "3"}
     THEN <<[end |-> i + 2, val |-> 20 + DigitVal(s[i + 1])]>> ELSE <<>>)
    \o (IF At(s, i) \in {"0", "1"} /\ IsDigit(At(s, i + 1))
        THEN <<[end |-> i + 2, val |-> 10 * DigitVal(s[i]) + DigitVal(s[i + 1])]>>
        ELSE <<>>)
    \o (IF IsDigit(At(s, i))
        THEN <<[end |-> i + 1, val |-> DigitVal(s[i])]>> ELSE <<>>)

\* %M : [0-5]\d | \d
Dir_M(s, i) ==
    (IF At(s, i) \in {"0", "1", "2", "3", "4", "5"} /\ IsDigit(At(s, i + 1))
     THEN <<[end |-> i + 2, val |-> 10 * DigitVal(s[i]) + DigitVal(s[i + 1])]>>
     ELSE <<>>)
    \o (IF IsDigit(At(s, i))
        THEN <<[end |-> i + 1, val |-> DigitVal(s[i])]>> ELSE <<>>)

\* %p : am | pm, letter case ignored; val is 1 for pm.
Dir_p(s, i) ==
    IF LowerChar(At(s, i)) \in {"a", "p"} /\ LowerChar(At(s, i + 1)) = "m"
    THEN <<[end |-> i + 2, val |-> IF LowerChar(s[i]) = "p" THEN 1 ELSE 0]>>
    ELSE <<>>

\* A blank of the format (\s+): the longest run of white space first.
RECURSIVE SpaceRun(_, _)
SpaceRun(s, i) == IF IsSpace(At(s, i)) THEN 1 + SpaceRun(s, i + 1) ELSE 0

Dir_blank(s, i) ==
    LET n == SpaceRun(s, i)
    IN  [k \in 1..n |-> [end |-> i + (n + 1 - k), val |-> 0]]

\* The literal ':' of the formats.
Dir_colon(s, i) == IF At(s, i) = ":" THEN <<[end |-> i + 1, val |-> 0]>> ELSE <<>>

\* The hour of a 12-hour clock with its meridiem, as strptime combines them.
Hour12(hour, pm) ==
    IF pm = 1 THEN (IF hour # 12 THEN hour + 12 ELSE hour)
    ELSE (IF hour = 12 THEN 0 ELSE hour)

\* The matches [hour, minute, end] of <hour directive> ':' %M.
HourMinute(s, hours) ==
    Flat([a \in DOMAIN hours |->
        Flat([b \in DOMAIN Dir_colon(s, hours[a].end) |->
            [c \in DOMAIN Dir_M(s, Dir_colon(s, hours[a].end)[b].end) |->
                LET m == Dir_M(s, Dir_colon(s, hours[a].end)[b].end)[c]
                IN  [hour |-> hours[a].val, minute |-> m.val, end |-> m.end]]])])

\* '%I:%M %p'
Match_I_M_blank_p(s) ==
    LET hm == HourMinute(s, Dir_I(s, 1))
    IN  Flat([x \in DOMAIN hm |->
            Flat([d \in DOMAIN Dir_blank(s, hm[x].end) |->
                [e \in DOMAIN Dir_p(s, Dir_blank(s, hm[x].end)[d].end) |->
                    LET p == Dir_p(s, Dir_blank(s, hm[x].end)[d].end)[e]
                    IN  [end |-> p.end,
                         val |-> Hour12(hm[x].hour, p.val) * 60 + hm[x].minute]]])])

\* '%I:%M%p'
Match_I_M_p(s) ==
    LET hm == HourMinute(s, Dir_I(s, 1))
    IN  Flat([x \in DOMAIN hm |->
            [e \in DOMAIN Dir_p(s, hm[x].end) |->
                [end |-> Dir_p(s, hm[x].end)[e].end,
                 val |-> Hour12(hm[x].hour, Dir_p(s, hm[x].end)[e].val) * 60
                            + hm[x].minute]]])

\* '%H:%M'
Match_H_M(s) ==
    LET hm == HourMinute(s, Dir_H(s, 1))
    IN  [x \in DOMAIN hm |-> [end |-> hm[x].end, val |-> hm[x].hour * 60 + hm[x].minute]]

\* datetime.strptime(s, fmt).time() for the format whose matches are found:
\* the first match decides, and it must consume the whole string.
strptime(s, found) ==
    IF found = <<>> THEN ValueError
    ELSE IF found[1].end # Len(s) + 1 THEN ValueError
    ELSE found[1].val

\* The inner try statement without its handler: the ValueError leaves the function.
except_missing(raised, next) == raised

\* What the handler of the inner try statement does with a raised ValueError:
\* `except: continue` goes on to the value tried next.
except_continue(raised, next) == next

\* convert_time_to_datetime(time_str)
convert_time_to_datetime(v) ==
    LET s == Strip(Str(v))
        t1 == strptime(s, Match_I_M_blank_p(s))
        t2 == strptime(s, Match_I_M_p(s))
        t3 == strptime(s, Match_H_M(s))
    IN  IF t1 # ValueError THEN t1
        ELSE except_continue(t1,
            IF t2 # ValueError THEN t2
            ELSE except_continue(t2,
                IF t3 # ValueError THEN t3
                ELSE except_continue(t3, NoTime)))

-----------------------------------------------------------------------------
(* The Time Parser run on its own: the argument is put together from an    *)
(* hour, a separator, a minute, a gap and a meridiem marker, with white    *)
(* space or other text around them.                                        *)

HourParts ==
    { [txt |-> <<"7">>, val |-> 7], [txt |-> <<"0", "7">>, val |-> 7],
      [txt |-> <<"1", "2">>, val |-> 12], [txt |-> <<"1", "3">>, val |-> 13],
      [txt |-> <<"0">>, val |-> 0], [txt |-> <<"0", "0">>, val |-> 0],
      [txt |-> <<"2", "3">>, val |-> 23], [txt |-> <<"2", "4">>, val |-> 24] }

MinuteParts ==
    { [txt |-> <<"0", "5">>, val |-> 5], [txt |-> <<"5">>, val |-> 5],
      [txt |-> <<"5", "9">>, val |-> 59], [txt |-> <<"6", "0">>, val |-> 60] }

SepParts == { <<":">>, <<".">> }
GapParts == { <<>>, <<" ">>, <<" ", "\t">> }
MarkerParts == { <<>>, <<"A", "M">>, <<"p", "m">>, <<"P", "m">>, <<"a", "M">>, <<"X", "M">> }
LeadParts == { <<>>, <<" ">> }
TrailParts == { <<>>, <<" ">>, <<"x">> }

TimeArgs ==
    { [hour |-> h, sep |-> c, minute |-> m, gap |-> g, marker |-> k,
       lead |-> a, trail |-> z,
       text |-> a \o h.txt \o c \o m.txt \o g \o k \o z] :
        h \in HourParts, c \in SepParts, m \in MinuteParts, g \in GapParts,
        k \in MarkerParts, a \in LeadParts, z \in TrailParts }

NoArg == [text |-> <<>>]

InitTime ==
    /\ pc = "convert"
    /\ time_str \in TimeArgs
    /\ time_obj = NoTime
    /\ uploaded_file = [name |-> <<>>]
    /\ page_i = 0
    /\ line_i = 0
    /\ current_meal = <<>>
    /\ meals = <<>>
    /\ df = NoFrame
    /\ shown = NoTime
    /\ now = NoTime
    /\ next_meal_idx = NoTime

\* One call of convert_time_to_datetime.
ConvertTime ==
    /\ pc = "convert"
    /\ time_obj' = convert_time_to_datetime(time_str.text)
    /\ pc' = "returned"
    /\ UNCHANGED <<time_str, uploaded_file, page_i, line_i, current_meal, meals,
                   df, shown, now, next_meal_idx>>

NextTime == ConvertTime

SpecTime == InitTime /\ [][NextTime]_vars

-----------------------------------------------------------------------------
(* Line-Pattern Parser: the loop body of parse_text (lines 139-181) and    *)
(* its copy in parse_pdf (lines 74-113).                                   *)

\* The markers of the pattern without their lower-case spellings.
TimeMarkersUpper == { <<"A", "M">>, <<"P", "M">> }

\* (?:AM|PM|am|pm) of the pattern at lines 80 and 145.
TimeMarkers == { <<"A", "M">>, <<"P", "M">>, <<"a", "m">>, <<"p", "m">> }

\* The position after a match of \b(\d{1,2}:\d{2}\s*(?:AM|PM|am|pm))\b that
\* starts at i, 0 when there is none.  Two digits are tried before one, and the
\* white space run is taken whole (a marker never starts with white space).
MatchTimeAt(s, i) ==
    LET nd == IF IsDigit(At(s, i)) /\ IsDigit(At(s, i + 1)) /\ At(s, i + 2) = ":"
              THEN 2
              ELSE IF IsDigit(At(s, i)) /\ At(s, i + 1) = ":" THEN 1 ELSE 0
        j == i + nd + 1
        k == j + 2 + SpaceRun(s, j + 2)
    IN  IF nd = 0 \/ IsWordChar(At(s, i - 1)) THEN 0
        ELSE IF ~(IsDigit(At(s, j)) /\ IsDigit(At(s, j + 1))) THEN 0
        ELSE IF <<At(s, k), At(s, k + 1)>> \notin TimeMarkers THEN 0
        ELSE IF IsWordChar(At(s, k + 2)) THEN 0
        ELSE k + 2

\* re.search(...) and group(1): the text of the leftmost match, None without one.
time_match(line) ==
    LET starts == {i \in 1..Len(line) : MatchTimeAt(line, i) # 0}
    IN  IF starts = {} THEN None
        ELSE LET i == CHOOSE a \in starts : \A b \in starts : a <= b
             IN  SubSeq(line, i, MatchTimeAt(line, i) - 1)

breakfast == <<"b", "r", "e", "a", "k", "f", "a", "s", "t">>
lunch == <<"l", "u", "n", "c", "h">>
dinner == <<"d", "i", "n", "n", "e", "r">>
snack == <<"s", "n", "a", "c", "k">>
pre_workout == <<"p", "r", "e", "-", "w", "o", "r", "k", "o", "u", "t">>
post_workout == <<"p", "o", "s", "t", "-", "w", "o", "r", "k", "o", "u", "t">>

\* meal_names of parse_text (line 165) and of parse_pdf (line 98).
text_meal_names == <<breakfast, lunch, dinner, snack, pre_workout, post_workout>>
pdf_meal_names == <<breakfast, lunch, dinner, snack>>

\* The loop over meal_names: the first name found in the lower-cased remainder
\* becomes the meal, title-cased, and is removed from the lower-cased remainder.
RECURSIVE find_meal_name(_, _)
find_meal_name(remaining, names) ==
    IF names = <<>> THEN [meal |-> <<>>, remaining |-> remaining]
    ELSE IF Contains(Lower(remaining), Head(names))
         THEN [meal |-> Title(Head(names)),
               remaining |-> Strip(Remove(Lower(remaining), Head(names)))]
         ELSE find_meal_name(remaining, Tail(names))

\* The record a time line starts.
new_meal(line, matched, names) ==
    LET found == find_meal_name(Strip(Remove(line, matched)), names)
    IN  [time |-> matched, meal |-> found.meal, food |-> found.remaining,
         quantity |-> <<>>, notes |-> <<>>]

\* add_food that joins with the separator whatever food holds.
add_food_always_joined(meal, line) ==
    [meal EXCEPT !.food = meal.food \o <<" ", "|", " ">> \o line]

\* A line without a time pattern, added to the food of the current meal.
add_food(meal, line) ==
    [meal EXCEPT !.food = IF meal.food # <<>>
                          THEN meal.food \o <<" ", "|", " ">> \o line
                          ELSE line]

\* One pass of the loop body over a raw line; st is [current_meal, meals].
line_body(st, raw, names) ==
    LET line == Strip(raw)
        matched == time_match(line)
    IN  IF line = <<>> THEN st
        ELSE IF matched # None
        THEN [current_meal |-> new_meal(line, matched, names),
              meals |-> IF Truthy(st.current_meal)
                        THEN Append(st.meals, st.current_meal) ELSE st.meals]
        ELSE IF Truthy(st.current_meal)
        THEN [st EXCEPT !.current_meal = add_food(st.current_meal, line)]
        ELSE st

text_line(st, raw) == line_body(st, raw, text_meal_names)
pdf_line(st, raw) == line_body(st, raw, pdf_meal_names)

\* "Don't forget the last meal" (lines 116-117, 184-185).
last_meal(st) ==
    IF Truthy(st.current_meal) THEN Append(st.meals, st.current_meal) ELSE st.meals

\* The return statement without its test: a DataFrame for an empty list too.
frame_always(ms) == DataFrame(ms)

\* return pd.DataFrame(meals) if meals else None (lines 119, 187).
frame_or_none(ms) == IF ms # <<>> THEN DataFrame(ms) ELSE NoFrame

\* parse_text as a function of the lines of the file.
RECURSIVE text_loop(_, _)
text_loop(st, lines) ==
    IF lines = <<>> THEN st ELSE text_loop(text_line(st, Head(lines)), Tail(lines))

parse_text(lines) ==
    frame_or_none(last_meal(text_loop([current_meal |-> <<>>, meals |-> <<>>], lines)))

-----------------------------------------------------------------------------
(* Tabular Parser: parse_excel (lines 23-57) over the decoded sheet, its   *)
(* header row and its data rows of cells.                                  *)

s_time == <<"t", "i", "m", "e">>
s_meal == <<"m", "e", "a", "l">>
s_food == <<"f", "o", "o", "d">>
s_item == <<"i", "t", "e", "m">>
s_quantity == <<"q", "u", "a", "n", "t", "i", "t", "y">>
s_portion == <<"p", "o", "r", "t", "i", "o", "n">>
s_qty == <<"q", "t", "y">>
s_note == <<"n", "o", "t", "e">>
s_nan == <<"n", "a", "n">>

\* df.columns.str.lower().str.strip() (line 30)
normalize_columns(columns) == [j \in 1..Len(columns) |-> Strip(Lower(columns[j]))]

\* next((col for col in df.columns if ...), None): the position of the first
\* column whose name contains one of the words, 0 for None.
first_column(columns, words) ==
    LET hits == {j \in 1..Len(columns) : \E w \in words : Contains(columns[j], w)}
    IN  IF hits = {} THEN 0 ELSE CHOOSE j \in hits : \A k \in hits : j <= k

time_col(columns) == first_column(columns, {s_time})
meal_col(columns) == first_column(columns, {s_meal})
food_col(columns) == first_column(columns, {s_food, s_item})
qty_col(columns) == first_column(columns, {s_quantity, s_portion, s_qty})
notes_col(columns) == first_column(columns, {s_note})

\* row[col] if col else ''
cell(row, col) == IF col # 0 THEN row[col] ELSE <<>>

\* The dict built from one data row (lines 42-48).
row_meal(columns, row) ==
    [time |-> cell(row, time_col(columns)),
     meal |-> cell(row, meal_col(columns)),
     food |-> cell(row, food_col(columns)),
     quantity |-> cell(row, qty_col(columns)),
     notes |-> cell(row, notes_col(columns))]

\* The filter of line 50 without its comparison with 'nan'.
any_value_stripped(meal) ==
    \E f \in DOMAIN meal : Strip(Str(meal[f])) # <<>>

\* any(str(v).strip() and str(v) != 'nan' for v in meal.values()) (line 50)
any_value(meal) ==
    \E f \in DOMAIN meal : Strip(Str(meal[f])) # <<>> /\ Str(meal[f]) # s_nan

parse_excel(sheet_columns, sheet_rows) ==
    LET columns == normalize_columns(sheet_columns)
        dicts == [i \in 1..Len(sheet_rows) |-> row_meal(columns, sheet_rows[i])]
    IN  DataFrame(SelectSeq(dicts, any_value))

-----------------------------------------------------------------------------
(* main() up to the parsed DataFrame (lines 252-267): the uploaded file,   *)
(* the dispatch on its extension and the three parsers.                    *)

\* uploaded_file.name.split('.')[-1].lower()
file_extension(name) ==
    LET dots == {i \in 1..Len(name) : name[i] = "."}
        last == IF dots = {} THEN 0 ELSE CHOOSE i \in dots : \A j \in dots : i >= j
    IN  Lower(SubSeq(name, last + 1, Len(name)))

ext_xlsx == <<"x", "l", "s", "x">>
ext_pdf == <<"p", "d", "f">>
ext_txt == <<"t", "x", "t">>

\* Lines a diet plan may hold.
Line_Breakfast ==
    <<"7", ":", "0", "0", " ", "A", "M", " ", "B", "r", "e", "a", "k", "f", "a", "s", "t">>
Line_Oats == <<"O", "a", "t", "s">>
Line_Snack ==
    <<" ", "S", "n", "a", "c", "k", " ", "1", "0", ":", "0", "0", "a", "m", " ", "T", "e", "a">>
Line_Blank == <<" ">>
Line_MixedCase == <<"6", ":", "3", "0", " ", "P", "m", " ", "r", "i", "c", "e">>
Line_PreWorkout ==
    <<"6", ":", "3", "0", " ", "P", "M", " ", "P", "r", "e", "-", "W", "o", "r", "k", "o", "u", "t">>

PlanLines ==
    {Line_Breakfast, Line_Oats, Line_Snack, Line_Blank, Line_MixedCase, Line_PreWorkout}

\* The example of the specification, section 8.
Line_Oatmeal ==
    <<"O", "a", "t", "m", "e", "a", "l", " ", "w", "i", "t", "h", " ",
      "b", "e", "r", "r", "i", "e", "s">>
Line_Snack10 ==
    <<"1", "0", ":", "0", "0", " ", "A", "M", " ", "S", "n", "a", "c", "k">>
Line_Yogurt == <<"G", "r", "e", "e", "k", " ", "y", "o", "g", "u", "r", "t">>
ExampleLines == <<Line_Breakfast, Line_Oatmeal, Line_Snack10, Line_Yogurt>>

\* The ways to cut a sequence of lines into at most MaxPages pages with text.
RECURSIVE CutAt(_, _, _)
CutAt(lines, cuts, from) ==
    IF cuts = {} THEN <<SubSeq(lines, from, Len(lines))>>
    ELSE LET c == CHOOSE a \in cuts : \A b \in cuts : a <= b
         IN  <<SubSeq(lines, from, c)>> \o CutAt(lines, cuts \ {c}, c + 1)

Pagings(lines) ==
    {CutAt(lines, cuts, 1) :
        cuts \in {c \in SUBSET (1..(Len(lines) - 1)) : Cardinality(c) < MaxPages}}

\* Header rows and data rows of a sheet; a data row gives its cells in the
\* order time, meal type, food, quantity, notes, and is laid out by the sheet.
Header_MealTime == <<"M", "e", "a", "l", " ", "T", "i", "m", "e">>
Header_MealType == <<"M", "e", "a", "l", " ", "T", "y", "p", "e">>
Header_FoodItem == <<"F", "o", "o", "d", " ", "I", "t", "e", "m">>
Header_Qty == <<"Q", "t", "y">>
Header_Notes == <<"N", "o", "t", "e", "s">>
SheetHeaders == <<Header_MealTime, Header_MealType, Header_FoodItem, Header_Qty, Header_Notes>>

Cell_7AM == <<"7", ":", "0", "0", " ", "A", "M">>
Cell_Lunch == <<"L", "u", "n", "c", "h">>
Cell_Rice == <<"R", "i", "c", "e">>
Cell_Cup == <<"1", "c">>
Cell_Hot == <<"h", "o", "t">>

RowValues ==
    { <<Cell_7AM, Cell_Lunch, Cell_Rice, Cell_Cup, Cell_Hot>>,
      <<NaN, NaN, NaN, NaN, NaN>>,
      <<<<" ">>, NaN, NaN, <<" ", " ">>, NaN>>,
      <<NaN, NaN, NaN, NaN, Cell_Hot>> }

\* Column layouts: the five headers in any order, and a sheet of three other
\* headers without a meal and a notes column.
Layouts ==
    {[j \in 1..5 |-> [header |-> SheetHeaders[p[j]], role |-> p[j]]] :
        p \in Permutations(1..5)}
    \cup { << [header |-> <<" ", "T", "I", "M", "E", " ">>, role |-> 1],
              [header |-> <<"P", "o", "r", "t", "i", "o", "n">>, role |-> 4],
              [header |-> <<"I", "t", "e", "m", "s">>, role |-> 3] >> }

Sheets ==
    {[name |-> <<"d", ".", "x", "l", "s", "x">>,
      columns |-> [j \in 1..Len(lay) |-> lay[j].header],
      rows |-> [i \in 1..Len(vals) |-> [j \in 1..Len(lay) |-> vals[i][lay[j].role]]]] :
        lay \in Layouts, vals \in SeqsUpTo(RowValues, MaxRows)}

TextFiles ==
    {[name |-> <<"d", ".", "T", "x", "t">>, lines |-> ls] :
        ls \in SeqsUpTo(PlanLines, MaxLines) \cup {ExampleLines}}

PdfFiles ==
    {[name |-> <<"d", ".", "p", "d", "f">>, pages |-> ps] :
        ps \in UNION {Pagings(ls) : ls \in SeqsUpTo(PlanLines, MaxLines)}}

Init ==
    /\ pc = "main"
    /\ uploaded_file \in Sheets \cup TextFiles \cup PdfFiles
    /\ page_i = 0
    /\ line_i = 0
    /\ current_meal = <<>>
    /\ meals = <<>>
    /\ df = NoFrame
    /\ time_str = NoArg
    /\ time_obj = NoTime
    /\ shown = NoTime
    /\ now = NoTime
    /\ next_meal_idx = NoTime

\* parse_excel(uploaded_file), called at line 258.
ParseExcel ==
    /\ pc = "main"
    /\ file_extension(uploaded_file.name) = ext_xlsx
    /\ df' = parse_excel(uploaded_file.columns, uploaded_file.rows)
    /\ pc' = "parsed"
    /\ UNCHANGED <<uploaded_file, page_i, line_i, current_meal, meals>>
    /\ UNCHANGED <<time_str, time_obj, shown, now, next_meal_idx>>

\* parse_text is entered (line 262): lines 133-137.
TextBegin ==
    /\ pc = "main"
    /\ file_extension(uploaded_file.name) = ext_txt
    /\ meals' = <<>>
    /\ current_meal' = <<>>
    /\ line_i' = 1
    /\ pc' = "parse_text"
    /\ UNCHANGED <<uploaded_file, page_i, df>>
    /\ UNCHANGED <<time_str, time_obj, shown, now, next_meal_idx>>

\* One pass of the loop of parse_text (lines 139-181).
TextLine ==
    /\ pc = "parse_text"
    /\ line_i <= Len(uploaded_file.lines)
    /\ LET st == text_line([current_meal |-> current_meal, meals |-> meals],
                           uploaded_file.lines[line_i])
       IN  /\ current_meal' = st.current_meal
           /\ meals' = st.meals
    /\ line_i' = line_i + 1
    /\ UNCHANGED <<pc, uploaded_file, page_i, df>>
    /\ UNCHANGED <<time_str, time_obj, shown, now, next_meal_idx>>

\* The end of parse_text (lines 184-187).
TextReturn ==
    /\ pc = "parse_text"
    /\ line_i > Len(uploaded_file.lines)
    /\ meals' = last_meal([current_meal |-> current_meal, meals |-> meals])
    /\ df' = frame_or_none(meals')
    /\ pc' = "parsed"
    /\ UNCHANGED <<uploaded_file, page_i, line_i, current_meal>>
    /\ UNCHANGED <<time_str, time_obj, shown, now, next_meal_idx>>

\* parse_pdf is entered (line 260): line 65.
PdfBegin ==
    /\ pc = "main"
    /\ file_extension(uploaded_file.name) = ext_pdf
    /\ meals' = <<>>
    /\ page_i' = 1
    /\ pc' = "parse_pdf"
    /\ UNCHANGED <<uploaded_file, line_i, current_meal, df>>
    /\ UNCHANGED <<time_str, time_obj, shown, now, next_meal_idx>>

\* The record a page of parse_pdf starts with (line 72).
page_current_meal(carried) == <<>>

\* A page of parse_pdf is entered (lines 67-72).
PdfPage ==
    /\ pc = "parse_pdf"
    /\ page_i <= Len(uploaded_file.pages)
    /\ current_meal' = page_current_meal(current_meal)
    /\ line_i' = 1
    /\ pc' = "pdf_lines"
    /\ UNCHANGED <<uploaded_file, page_i, meals, df>>
    /\ UNCHANGED <<time_str, time_obj, shown, now, next_meal_idx>>

\* One pass of the inner loop of parse_pdf (lines 74-113).
PdfLine ==
    /\ pc = "pdf_lines"
    /\ line_i <= Len(uploaded_file.pages[page_i])
    /\ LET st == pdf_line([current_meal |-> current_meal, meals |-> meals],
                          uploaded_file.pages[page_i][line_i])
       IN  /\ current_meal' = st.current_meal
           /\ meals' = st.meals
    /\ line_i' = line_i + 1
    /\ UNCHANGED <<pc, uploaded_file, page_i, df>>
    /\ UNCHANGED <<time_str, time_obj, shown, now, next_meal_idx>>

\* The end of a page of parse_pdf (lines 116-117).
PdfPageEnd ==
    /\ pc = "pdf_lines"
    /\ line_i > Len(uploaded_file.pages[page_i])
    /\ meals' = last_meal([current_meal |-> current_meal, meals |-> meals])
    /\ page_i' = page_i + 1
    /\ pc' = "parse_pdf"
    /\ UNCHANGED <<uploaded_file, line_i, current_meal, df>>
    /\ UNCHANGED <<time_str, time_obj, shown, now, next_meal_idx>>

\* The end of parse_pdf (line 119).
PdfReturn ==
    /\ pc = "parse_pdf"
    /\ page_i > Len(uploaded_file.pages)
    /\ df' = frame_or_none(meals)
    /\ pc' = "parsed"
    /\ UNCHANGED <<uploaded_file, page_i, line_i, current_meal, meals>>
    /\ UNCHANGED <<time_str, time_obj, shown, now, next_meal_idx>>

Next ==
    \/ ParseExcel
    \/ TextBegin
    \/ TextLine
    \/ TextReturn
    \/ PdfBegin
    \/ PdfPage
    \/ PdfLine
    \/ PdfPageEnd
    \/ PdfReturn

Spec == Init /\ [][Next]_vars

-----------------------------------------------------------------------------
(* main() from the loaded DataFrame on (lines 267-281): the current time   *)
(* is displayed, then get_current_or_next_meal (lines 212-232) is called.  *)
(* A clock reading is kept to the minute: meal times have no seconds, so a *)
(* meal is later than a reading exactly when it is later than its minute.  *)

\* No index label (None) where get_current_or_next_meal returns one.
NoIndex == -1

MinutesPerDay == 1440

\* datetime.now() at line 275: minutes of the day at which the page is drawn.
ClockReadings == {0, 419, 420, 779, 780, 1139, 1140, 1439}

Label_7AM == <<"7", ":", "0", "0", " ", "A", "M">>
Label_1PM == <<"1", ":", "0", "0", " ", "P", "M">>
Label_7PM == <<"7", ":", "0", "0", "P", "M">>
Label_19 == <<"1", "9", ":", "0", "0">>
Label_Soon == <<"s", "o", "o", "n">>

\* The time column of a loaded plan: labels in the three formats, two of them
\* for the same time, a label that is no time, and an empty sheet cell.
TimeLabels == {Label_7AM, Label_1PM, Label_7PM, Label_19, Label_Soon, NaN}

LoadedFrames ==
    {DataFrame([i \in 1..Len(ts) |->
        [time |-> ts[i], meal |-> Cell_Lunch, food |-> Cell_Rice,
         quantity |-> <<>>, notes |-> <<>>]]) :
        ts \in SeqsUpTo(TimeLabels, MaxRecords) \ {<<>>}}

InitSched ==
    /\ pc = "loaded"
    /\ df \in LoadedFrames
    /\ shown = NoTime
    /\ now = NoTime
    /\ next_meal_idx = NoIndex
    /\ uploaded_file = [name |-> <<>>]
    /\ page_i = 0
    /\ line_i = 0
    /\ current_meal = <<>>
    /\ meals = <<>>
    /\ time_str = NoArg
    /\ time_obj = NoTime

\* df['time_obj'] = df['time'].apply(convert_time_to_datetime) (line 217):
\* the frame the caller passed gets a sixth column.
with_time_obj(frame) ==
    [columns |-> Append(frame.columns, "time_obj"),
     rows |-> [i \in 1..Len(frame.rows) |->
                frame.rows[i] @@ [time_obj |-> convert_time_to_datetime(frame.rows[i].time)]]]

\* df.dropna(subset=['time_obj']) (line 218): the positions of the rows kept.
dropna(frame) == {i \in 1..Len(frame.rows) : frame.rows[i].time_obj # NoTime}

\* df.sort_values('time_obj') (line 224): the orders of the kept rows by
\* ascending time; rows of equal time come in an order the sort does not fix.
sort_values(frame, kept) ==
    {o \in [1..Cardinality(kept) -> kept] :
        /\ \A a, b \in DOMAIN o : a # b => o[a] # o[b]
        /\ \A a, b \in DOMAIN o :
                a < b => frame.rows[o[a]].time_obj <= frame.rows[o[b]].time_obj}

\* The test of line 228 with the equal time let through.
is_later_or_now(t, clock) == t >= clock

\* row['time_obj'] > now (line 228)
is_later(t, clock) == t > clock

\* The loop of lines 227-229 and the return of line 232, over the sorted
\* rows; the index label of a row is its position less one.
next_meal(frame, order, clock) ==
    LET later == {k \in DOMAIN order : is_later(frame.rows[order[k]].time_obj, clock)}
    IN  IF later # {}
        THEN order[CHOOSE k \in later : \A m \in later : k <= m] - 1
        ELSE order[1] - 1

\* st.metric("Current Time", datetime.now().strftime("%I:%M %p")) (line 275)
ShowCurrentTime ==
    /\ pc = "loaded"
    /\ shown' \in ClockReadings
    /\ pc' = "shown"
    /\ UNCHANGED <<df, now, next_meal_idx>>
    /\ UNCHANGED <<time_str, time_obj, uploaded_file, page_i, line_i, current_meal, meals>>

\* next_meal_idx = get_current_or_next_meal(df) (line 278): the function reads
\* the clock itself (line 214), at or after the reading displayed.
GetCurrentOrNextMeal ==
    /\ pc = "shown"
    /\ \E drift \in 0..MaxDrift : now' = (shown + drift) % MinutesPerDay
    /\ df' = with_time_obj(df)
    /\ LET kept == dropna(df')
       IN  IF kept = {} THEN next_meal_idx' = NoIndex
           ELSE \E order \in sort_values(df', kept) :
                    next_meal_idx' = next_meal(df', order, now')
    /\ pc' = "resolved"
    /\ UNCHANGED shown
    /\ UNCHANGED <<time_str, time_obj, uploaded_file, page_i, line_i, current_meal, meals>>

NextSched == ShowCurrentTime \/ GetCurrentOrNextMeal

SpecSched == InitSched /\ [][NextSched]_vars

\* ------------------------------- Claims ---------------------------------

(* Claim-side reading of a Time Parser argument, from the parts it was     *)
(* built from rather than from its characters.                             *)

IsMeridiem(k) == Lower(k) \in { <<"a", "m">>, <<"p", "m">> }

WellFormed(a) ==
    a.sep = <<":">> /\ a.minute.val \in 0..59 /\ a.trail # <<"x">>

Is12Spaced(a) ==
    WellFormed(a) /\ a.hour.val \in 1..12 /\ a.gap # <<>> /\ IsMeridiem(a.marker)

Is12Tight(a) ==
    WellFormed(a) /\ a.hour.val \in 1..12 /\ a.gap = <<>> /\ IsMeridiem(a.marker)

Is24(a) == WellFormed(a) /\ a.hour.val \in 0..23 /\ a.marker = <<>>

Value12(a) ==
    ((a.hour.val % 12) + (IF Lower(a.marker) = <<"p", "m">> THEN 12 ELSE 0)) * 60
        + a.minute.val

ExpectedTime(a) ==
    IF Is12Spaced(a) \/ Is12Tight(a) THEN Value12(a)
    ELSE IF Is24(a) THEN a.hour.val * 60 + a.minute.val
    ELSE NoTime

\* C5: convert_time_to_datetime never raises: it returns the time-of-day of
\* the first of "7:05 AM", "7:05AM", "19:05" that parses the argument, and
\* None for an argument none of the three parses.
C5_TimeParserTotal ==
    pc = "returned" =>
        /\ time_obj # ValueError
        /\ time_obj = ExpectedTime(time_str)

\* C5 witness: the first format raised, the second parsed an afternoon time.
C5_Witness ==
    /\ pc = "returned"
    /\ Is12Tight(time_str)
    /\ strptime(Strip(time_str.text), Match_I_M_blank_p(Strip(time_str.text))) = ValueError
    /\ time_obj = 19 * 60 + 5

-----------------------------------------------------------------------------
(* Claim-side vocabulary for the parsers.                                  *)

IsXlsx == "columns" \in DOMAIN uploaded_file
IsTxt == "lines" \in DOMAIN uploaded_file
IsPdf == "pages" \in DOMAIN uploaded_file

\* The rows of a parse result, none for "no result".
Rows(frame) == IF frame = NoFrame THEN <<>> ELSE frame.rows

NonBlank(line) == Strip(line) # <<>>

\* The stripped non-blank lines among ls, in order.
Stripped(ls) == SelectSeq([i \in 1..Len(ls) |-> Strip(ls[i])], NonBlank)

HasTime(line) == time_match(line) # None

\* The lines of the input that the parser has gone through.
Processed ==
    IF IsTxt THEN SubSeq(uploaded_file.lines, 1, line_i - 1)
    ELSE IF pc = "pdf_lines"
    THEN Flat(SubSeq(uploaded_file.pages, 1, page_i - 1))
            \o SubSeq(uploaded_file.pages[page_i], 1, line_i - 1)
    ELSE Flat(SubSeq(uploaded_file.pages, 1, page_i - 1))

\* The records started so far: the finalized ones and the one accumulating.
Started == IF Truthy(current_meal) THEN Append(meals, current_meal) ELSE meals

RECURSIVE Join(_, _)
Join(pieces, sep) ==
    IF pieces = <<>> THEN <<>>
    ELSE IF Len(pieces) = 1 THEN pieces[1]
    ELSE pieces[1] \o sep \o Join(Tail(pieces), sep)

Bar == <<" ", "|", " ">>

\* The k-th smallest element of a set of numbers.
RECURSIVE Kth(_, _)
Kth(S, k) ==
    LET m == CHOOSE a \in S : \A b \in S : a <= b
    IN  IF k = 1 THEN m ELSE Kth(S \ {m}, k - 1)

\* What the claim says a text file yields: one record per time line, its
\* food the remainder of the time line and the lines up to the next time
\* line, joined with " | ".
ExpectedText(ls) ==
    LET nb == Stripped(ls)
        at == {i \in 1..Len(nb) : HasTime(nb[i])}
        n == Cardinality(at)
        rec(k) ==
            LET p == Kth(at, k)
                q == IF k < n THEN Kth(at, k + 1) ELSE Len(nb) + 1
                first == new_meal(nb[p], time_match(nb[p]), text_meal_names)
            IN  [first EXCEPT !.food =
                    Join((IF first.food # <<>> THEN <<first.food>> ELSE <<>>)
                            \o SubSeq(nb, p + 1, q - 1), Bar)]
    IN  [k \in 1..n |-> rec(k)]

ExampleRecords ==
    << [time |-> <<"7", ":", "0", "0", " ", "A", "M">>,
        meal |-> <<"B", "r", "e", "a", "k", "f", "a", "s", "t">>,
        food |-> Line_Oatmeal, quantity |-> <<>>, notes |-> <<>>],
       [time |-> <<"1", "0", ":", "0", "0", " ", "A", "M">>,
        meal |-> <<"S", "n", "a", "c", "k">>,
        food |-> Line_Yogurt, quantity |-> <<>>, notes |-> <<>>] >>

\* C3: parse_text, line by line: a time line finalizes the accumulating record
\* and starts one whose time is the matched text; a later line without a time
\* is joined to the food of the latest record with " | " when food is not
\* empty; the output has one record per time line, in order, the last one
\* included, and the four-line example yields its two records.
C3_TextAccumulation ==
    IsTxt =>
        /\ pc = "parse_text" => Started = ExpectedText(Processed)
        /\ pc = "parsed" =>
            /\ Rows(df) = ExpectedText(uploaded_file.lines)
            /\ Len(Rows(df)) = Len(SelectSeq(Stripped(uploaded_file.lines), HasTime))
            /\ \A k \in 1..Len(Rows(df)) :
                    Rows(df)[k].time =
                        time_match(SelectSeq(Stripped(uploaded_file.lines), HasTime)[k])
            /\ uploaded_file.lines = ExampleLines => Rows(df) = ExampleRecords

\* C3 witness: two records came out and a food was joined with " | ".
C3_Witness ==
    /\ IsTxt
    /\ pc = "parsed"
    /\ Len(Rows(df)) = 2
    /\ \E k \in 1..2 : Contains(Rows(df)[k].food, Bar)

\* C4: a line without a time before any time line is discarded, and an input
\* without any time line yields None, never a DataFrame without rows.
C4_NoTimeNoResult ==
    (IsTxt \/ IsPdf) =>
        /\ (pc \in {"parse_text", "pdf_lines"}
                /\ \A i \in 1..Len(Processed) : ~HasTime(Strip(Processed[i])))
            => (current_meal = <<>> /\ meals = <<>>)
        /\ pc = "parsed" =>
            /\ df = NoFrame \/ df.rows # <<>>
            /\ (\A i \in 1..Len(Processed) : ~HasTime(Strip(Processed[i])))
                => df = NoFrame

\* C4 witness: a text file of two lines with text and no time gave None.
C4_Witness ==
    /\ IsTxt
    /\ pc = "parsed"
    /\ Len(Stripped(uploaded_file.lines)) >= 2
    /\ \A i \in 1..Len(uploaded_file.lines) : ~HasTime(Strip(uploaded_file.lines[i]))
    /\ df = NoFrame

\* A field is empty when it is the not-a-number value or blank after trimming.
EmptyField(v) == v = NaN \/ Strip(v) = <<>>
AllEmpty(meal) == \A f \in DOMAIN meal : EmptyField(meal[f])
NotAllEmpty(meal) == ~AllEmpty(meal)

\* C6: every record a parser returns has a field that is not empty; parse_excel
\* drops the rows whose five fields are all empty and keeps the others in order.
C6_Retention ==
    pc = "parsed" =>
        /\ \A k \in 1..Len(Rows(df)) : ~AllEmpty(Rows(df)[k])
        /\ IsXlsx =>
            df.rows = SelectSeq(
                [i \in 1..Len(uploaded_file.rows) |->
                    row_meal(normalize_columns(uploaded_file.columns),
                             uploaded_file.rows[i])],
                NotAllEmpty)

\* C6 witness: of two sheet rows the first, all not-a-number, was dropped and
\* the second was kept.
C6_Witness ==
    /\ IsXlsx
    /\ pc = "parsed"
    /\ Len(uploaded_file.rows) = 2
    /\ \A j \in 1..Len(uploaded_file.columns) : uploaded_file.rows[1][j] = NaN
    /\ Len(df.rows) = 1

\* The column of the sheet under a given header.
ColumnOf(header) ==
    CHOOSE j \in 1..Len(uploaded_file.columns) : uploaded_file.columns[j] = header

HasSheetHeaders ==
    /\ IsXlsx
    /\ Len(uploaded_file.columns) = 5
    /\ Range(uploaded_file.columns) = Range(SheetHeaders)

\* The record the claim expects of a data row.
ByHeader(row) ==
    [time |-> row[ColumnOf(Header_MealTime)],
     meal |-> row[ColumnOf(Header_MealType)],
     food |-> row[ColumnOf(Header_FoodItem)],
     quantity |-> row[ColumnOf(Header_Qty)],
     notes |-> row[ColumnOf(Header_Notes)]]

\* C2: with the headers "Meal Time", "Meal Type", "Food Item", "Qty", "Notes"
\* in any column order, every record parse_excel produces takes time, meal,
\* food, quantity and notes from the columns under those headers.
C2_HeaderMapping ==
    (pc = "parsed" /\ HasSheetHeaders) =>
        \A k \in 1..Len(df.rows) :
            \E i \in 1..Len(uploaded_file.rows) :
                df.rows[k] = ByHeader(uploaded_file.rows[i])

\* No line of the pages names a meal that only parse_text knows.
SharedVocabulary ==
    \A ln \in Range(Flat(uploaded_file.pages)) :
        /\ ~Contains(Lower(ln), pre_workout)
        /\ ~Contains(Lower(ln), post_workout)

\* C7: for lines of the shared meal vocabulary, cut into pages in any way,
\* parse_pdf yields the records parse_text yields for the whole sequence of
\* lines: a line at the top of a later page continues the record of the
\* earlier page, and no record is doubled or lost.
C7_PdfAsText ==
    (IsPdf /\ pc = "parsed" /\ SharedVocabulary) =>
        df = parse_text(Flat(uploaded_file.pages))

\* A whole-word time token of a line, as the claim spells it: one or two
\* digits, a colon, two digits, white space or none, and a marker; <<i, e>>
\* are its first position and the position after it.
TokenSpans(line, IsMarker(_, _)) ==
    LET starts == {i \in 1..Len(line) :
                        IsDigit(At(line, i)) /\ ~IsWordChar(At(line, i - 1))}
        colons == {<<i, c>> \in starts \X (1..Len(line)) :
                        /\ c - i \in {1, 2}
                        /\ At(line, c) = ":"
                        /\ \A d \in i..(c - 1) : IsDigit(At(line, d))
                        /\ IsDigit(At(line, c + 1)) /\ IsDigit(At(line, c + 2))}
    IN  {<<ic[1], e>> : <<ic, e>> \in
            {x \in colons \X (1..(Len(line) + 1)) :
                /\ x[2] >= x[1][2] + 5
                /\ \A d \in (x[1][2] + 3)..(x[2] - 3) : IsSpace(At(line, d))
                /\ IsMarker(At(line, x[2] - 2), At(line, x[2] - 1))
                /\ ~IsWordChar(At(line, x[2]))}}

\* The text of the leftmost token of a line that has one.
TokenText(line, IsMarker(_, _)) ==
    LET spans == TokenSpans(line, IsMarker)
        first == CHOOSE a \in spans : \A b \in spans : a[1] <= b[1]
    IN  SubSeq(line, first[1], first[2] - 1)

\* "AM" or "PM" in any letter case.
AnyCaseMarker(a, b) == LowerChar(a) \in {"a", "p"} /\ LowerChar(b) = "m"

\* "AM" or "PM" all in upper case or all in lower case.
OneCaseMarker(a, b) == <<a, b>> \in { <<"A", "M">>, <<"P", "M">>, <<"a", "m">>, <<"p", "m">> }

\* The records started equal in number the processed lines holding a token
\* and carry the token texts as their times, and the line just processed,
\* when it holds a token, started the current record.
TokensStartRecords(IsMarker(_, _)) ==
    pc \in {"parse_text", "pdf_lines"} =>
        LET done == Stripped(Processed)
            held == {i \in 1..Len(done) : TokenSpans(done[i], IsMarker) # {}}
            latest == Strip(IF IsTxt THEN uploaded_file.lines[line_i - 1]
                            ELSE uploaded_file.pages[page_i][line_i - 1])
        IN  /\ Len(Started) = Cardinality(held)
            /\ \A k \in 1..Cardinality(held) :
                    Started[k].time = TokenText(done[Kth(held, k)], IsMarker)
            /\ (line_i > 1 /\ TokenSpans(latest, IsMarker) # {}) =>
                    current_meal =
                        new_meal(latest, TokenText(latest, IsMarker),
                                 IF IsTxt THEN text_meal_names ELSE pdf_meal_names)

\* C9: a line with a whole-word token of digits, colon, two digits, optional
\* white space and "AM" or "PM" in any letter case starts a record whose time
\* is the matched text; a line without such a token starts none.
C9_AnyCaseMarker == TokensStartRecords(AnyCaseMarker)

\* C9 as amended: the marker is "AM", "PM", "am" or "pm"; a token with a
\* marker of mixed case ("Am", "pM") does not make its line a time line.
C9_OneCaseMarker == TokensStartRecords(OneCaseMarker)

\* C9 witness: a line with "10:00am" inside it started the current record.
C9_Witness ==
    /\ IsTxt
    /\ pc = "parse_text"
    /\ line_i > 1
    /\ uploaded_file.lines[line_i - 1] = Line_Snack
    /\ current_meal.time = <<"1", "0", ":", "0", "0", "a", "m">>

-----------------------------------------------------------------------------
(* Claim-side vocabulary for the Schedule Resolver.                        *)

\* The time the Time Parser resolves for every record, by position.
ResolvedTimes == [i \in 1..Len(df.rows) |-> convert_time_to_datetime(df.rows[i].time)]

\* R: the positions of the records whose time resolves.
Resolvable(t) == {i \in DOMAIN t : t[i] # NoTime}

\* The positions the claim allows as the selection at a given time of day:
\* the earliest of the records later than it, else the earliest of all.
Selectable(t, clock) ==
    LET later == {i \in Resolvable(t) : t[i] > clock}
        from == IF later # {} THEN later ELSE Resolvable(t)
    IN  {i \in from : \A j \in from : t[i] <= t[j]}

\* C1: get_current_or_next_meal returns no selection when no record's time
\* resolves; else the record of the smallest resolved time strictly greater
\* than now; else, none being greater, the record of the smallest resolved
\* time.  A record at exactly now is chosen only as that wraparound.
C1_NextMeal ==
    pc = "resolved" =>
        LET t == ResolvedTimes
        IN  IF Resolvable(t) = {} THEN next_meal_idx = NoIndex
            ELSE /\ next_meal_idx + 1 \in Selectable(t, now)
                 /\ t[next_meal_idx + 1] = now =>
                        \A i \in Resolvable(t) : t[i] <= now

\* C1 witness: a record at exactly now was passed over for a later one.
C1_Witness ==
    /\ pc = "resolved"
    /\ next_meal_idx # NoIndex
    /\ LET t == ResolvedTimes
       IN  /\ \E i \in Resolvable(t) : t[i] = now
           /\ t[next_meal_idx + 1] > now

\* C8: get_current_or_next_meal leaves the records passed in unchanged: the
\* same records in the same order with the same fields and values.
C8_NoMutation == [][df' = df]_vars

\* C10: the time shown as "Current Time" and the now of the Schedule Resolver
\* are one clock reading, so the selection is the one the shown time decides.
C10_OneClockReading ==
    pc = "resolved" =>
        /\ now = shown
        /\ LET t == ResolvedTimes
           IN  Resolvable(t) # {} => next_meal_idx + 1 \in Selectable(t, shown)

=============================================================================
